---------------------------- MODULE Spec2Model ----------------------------
(***************************************************************************)
(* A model of the intro-to-dl course material:                             *)
(*   - the notebooks of day1 (test-setup, MNIST-MLP, MNIST-CNN, IMDB-RNN)  *)
(*     and the optional MNIST-RNN notebook, as sequences of code cells run *)
(*     by a kernel, either all in order or one cell at a time;             *)
(*   - the Slurm batch scripts, as straight-line bash programs;            *)
(*   - the two pieces of data handling of the IMDB notebook: the padding   *)
(*     of the reviews and the encoding of the hand-written review;         *)
(*   - the parameter count of a model built with the functional API;       *)
(*   - the random labels of the test-setup notebook.                       *)
(***************************************************************************)
EXTENDS Integers, Sequences, FiniteSets, TLC

VARIABLES
    \* ---- notebook kernel ----
    nb,          \* the notebook that is open ("none": no notebook)
    tfVersion,   \* tf.__version__ of the installed TensorFlow, tokenised
    learner,     \* "blank": Task 1 placeholder left as is; "written": filled in
    kernel,      \* the kernel's namespace and the objects it holds
    pc,          \* run-all: index of the next code cell to run
    status,      \* run-all: "running", "halted" (a cell raised) or "done"
    ran,         \* run-all: the code cells executed so far, in order
    out,         \* run-all: the statements completed so far, with their cell
    err,         \* the error of the run-all's halting cell
    last,        \* the most recent cell execution: [cell, ok]
    \* ---- batch job ----
    script,      \* the batch script of the job ("none": no job)
    ip,          \* index of the next command of the script
    shStatus,    \* $? : exit status of the last command
    submitEnv,   \* names of the variables the job inherits from its submission
    shEnv,       \* names of the variables in the shell's exported environment
    cmdlog,      \* the commands executed so far: [idx, status]
    py,          \* the interpreter launches: [env, started, procs]
    jobState,    \* "running" or "exited"
    jobExit,     \* exit status of the job script
    \* ---- IMDB padding ----
    review,      \* a review of x_train / x_test
    padded,      \* <<>> before the padding cell, the row of the padded array after
    \* ---- IMDB hand-encoded review ----
    text,        \* myreviewtext.split()
    myreview,    \* the row myreview[0, :]
    wi,          \* number of loop iterations done
    encState,    \* "init", "loop", "done" or "IndexError"
    \* ---- model summary ----
    arch,        \* the layers the cell asks for: [inShape, flatten, hidden]
    xshape,      \* shape of the tensor the last layer call returned (no batch axis)
    summary,     \* the rows of model.summary(): [layer, params]
    bstate,      \* "start", "input", "layers" or "built"
    \* ---- test-setup random data ----
    ytrain,      \* the label values np.random.randint drew for the 128 samples
    ytest,       \* the label values np.random.randint drew for the 64 samples
    rstate,      \* "start", "fitted", "evaluated" or "error"
    rerr         \* the exception of the failing call

nbVars  == <<nb, tfVersion, learner, kernel, pc, status, ran, out, err, last>>
jobVars == <<script, ip, shStatus, submitEnv, shEnv, cmdlog, py, jobState, jobExit>>
padVars == <<review, padded>>
encVars == <<text, myreview, wi, encState>>
sumVars == <<arch, xshape, summary, bstate>>
catVars == <<ytrain, ytest, rstate, rerr>>
auxVars == <<sumVars, catVars>>
vars    == <<nbVars, jobVars, padVars, encVars, auxVars>>

-----------------------------------------------------------------------------
(* Bounds of the model *)

\* exit statuses an external command may return are 0..MaxStatus
MaxStatus == 2
\* interactive sessions stop training a model at this many epochs
MaxTrained == 20
\* reviews of x_train / x_test have at most maxlen + MaxOver words
MaxOver == 3
\* the hand-written review text has at most MaxWords words
MaxWords == 3

\* the IMDB notebook: number of most-frequent words to use
nb_words == 10000
\* the IMDB notebook: cut texts after this number of words
maxlen == 80

-----------------------------------------------------------------------------
(* distutils.version.LooseVersion, as used by the first cell of a notebook *)

Num(n) == [num |-> TRUE, n |-> n, s |-> ""]
Str(s) == [num |-> FALSE, n |-> 0, s |-> s]

\* tf.__version__ strings, split as component_re.split splits them
V_1_15_0   == <<Num(1), Str("."), Num(15), Str("."), Num(0)>>
V_1_2_0rc1 == <<Num(1), Str("."), Num(2), Str("."), Num(0), Str("-"), Str("rc"), Num(1)>>
V_2_0_0rc0 == <<Num(2), Str("."), Num(0), Str("."), Num(0), Str("-"), Str("rc"), Num(0)>>
V_2_0_0    == <<Num(2), Str("."), Num(0), Str("."), Num(0)>>
V_2_6_0    == <<Num(2), Str("."), Num(6), Str("."), Num(0)>>
TFVersions == {V_1_15_0, V_1_2_0rc1, V_2_0_0rc0, V_2_0_0, V_2_6_0}

\* LooseVersion.parse: the components other than "."
LV(v) == SelectSeq(v, LAMBDA c : c.num \/ c.s # ".")

\* Python's order on the strings a version holds (ASCII order)
LVStrings == <<"-", "alpha", "beta", "dev", "rc">>
StrIndex(s) == CHOOSE i \in 1..Len(LVStrings) : LVStrings[i] = s

\* Python's comparison of two lists: "lt", "eq", "gt", or "TypeError" when an
\* int meets a str
RECURSIVE CmpList(_, _, _)
CmpList(a, b, i) ==
    IF i > Len(a) /\ i > Len(b) THEN "eq"
    ELSE IF i > Len(a) THEN "lt"
    ELSE IF i > Len(b) THEN "gt"
    ELSE IF a[i].num # b[i].num THEN "TypeError"
    ELSE IF a[i].num /\ a[i].n < b[i].n THEN "lt"
    ELSE IF a[i].num /\ a[i].n > b[i].n THEN "gt"
    ELSE IF ~a[i].num /\ StrIndex(a[i].s) < StrIndex(b[i].s) THEN "lt"
    ELSE IF ~a[i].num /\ StrIndex(a[i].s) > StrIndex(b[i].s) THEN "gt"
    ELSE CmpList(a, b, i + 1)

VersionAssertOne(v) ==
    LET c == CmpList(LV(v), <<Num(1)>>, 1)
    IN  IF c = "TypeError" THEN "TypeError"
        ELSE IF c = "lt" THEN "AssertionError"
        ELSE ""

\* assert(LV(tf.__version__) >= LV("2.0.0")): "" when it passes, else the error
VersionAssert(v) ==
    LET c == CmpList(LV(v), LV(V_2_0_0), 1)
    IN  IF c = "TypeError" THEN "TypeError"
        ELSE IF c = "lt" THEN "AssertionError"
        ELSE ""

-----------------------------------------------------------------------------
(* Statements of a code cell *)

\* a statement: what it does (op) to which names (x, y), the names it reads
\* and the names it binds
Stmt(op, x, y, reads, writes) ==
    [op |-> op, x |-> x, y |-> y, ev |-> "", vv |-> "", n |-> 0, keys |-> {},
     reads |-> reads, writes |-> writes]

\* v = n
AssignStmt(v, n) == [Stmt("assign", v, "", {}, {v}) EXCEPT !.n = n]

\* h = m.fit(..., epochs = <ev or the literal n>, validation_split = <vv>)
FitStmt(m, h, ev, n, vv) ==
    [Stmt("fit", m, h,
          {m, "data"} \cup (IF ev = "" THEN {} ELSE {ev})
                      \cup (IF vv = "" THEN {} ELSE {vv}),
          IF h = "" THEN {} ELSE {h})
     EXCEPT !.ev = ev, !.n = n, !.vv = vv]

\* plt.plot(h.epoch, h.history[key]) for each key
PlotStmt(h, keys) == [Stmt("plot", "", h, {h}, {}) EXCEPT !.keys = keys]

\* a code cell: its lines in the notebook file, its metadata tags, its statements
CellT(first, lastl, tags, stmts) ==
    [first |-> first, last |-> lastl, tags |-> tags, stmts |-> stmts]

\* a code cell whose metadata holds no tags
Cell(first, lastl, stmts) == CellT(first, lastl, {}, stmts)

GuardMsg == "You need to write the missing model definition"

ImportCell(first, lastl) ==
    Cell(first, lastl, <<Stmt("import", "tf", "", {}, {"tf"}),
                         Stmt("assert_version", "", "", {"tf"}, {})>>)

GpuCell(first, lastl) ==
    Cell(first, lastl, <<Stmt("gpu_check", "", "", {"tf"}, {})>>)

EvalCellSkipped(first, lastl, m, sc) == Cell(first, lastl, <<>>)

\* scores = m.evaluate(X_test, Y_test); print(...)
EvalCell(first, lastl, m, sc) ==
    Cell(first, lastl, <<Stmt("evaluate", m, sc, {m, "data"}, {sc})>>)

\* the Task 1 cell with the assertion: builds and compiles ex1_model
GuardCell(first, lastl) ==
    Cell(first, lastl,
         <<Stmt("guard", "", "ex1_outputs", {"ex1_outputs"}, {}),
           Stmt("build", "ex1_model", "ex1_outputs",
                {"tf", "ex1_inputs", "ex1_outputs"}, {"ex1_model"}),
           Stmt("compile", "ex1_model", "", {"ex1_model"}, {}),
           Stmt("summary", "ex1_model", "", {"ex1_model"}, {})>>)

\* the main example's model cell: Input, layers, Model, compile, summary
ModelCell(first, lastl) ==
    Cell(first, lastl,
         <<Stmt("input", "inputs", "", {"tf"}, {"inputs"}),
           Stmt("layers", "outputs", "inputs", {"tf", "inputs"}, {"outputs"}),
           Stmt("build", "model", "outputs", {"tf", "inputs", "outputs"}, {"model"}),
           Stmt("compile", "model", "", {"model"}, {}),
           Stmt("summary", "model", "", {"model"}, {})>>)

MnistCellRaw(first, lastl) ==
    Cell(first, lastl, <<Stmt("load", "mnist", "", {"tf"}, {"data"})>>)

\* MNIST: load_data, /= 255, to_categorical
MnistCell(first, lastl) ==
    Cell(first, lastl,
         <<Stmt("load", "mnist", "", {"tf"}, {"data"}),
           Stmt("normalize", "", "", {"data"}, {"data"}),
           Stmt("onehot", "", "", {"tf", "data"}, {"data"})>>)

PredictCell(first, lastl) ==
    Cell(first, lastl,
         <<Stmt("predict", "model", "predictions", {"model", "data"}, {"predictions"}),
           Stmt("show_failures", "", "", {"tf", "predictions", "data"}, {})>>)

FailuresCell(first, lastl) ==
    Cell(first, lastl,
         <<Stmt("show_failures", "", "", {"tf", "predictions", "data"}, {})>>)

EmptyCell(first, lastl) == Cell(first, lastl, <<>>)

LossAcc == {"loss", "accuracy"}
LossAccVal == {"loss", "val_loss", "accuracy", "val_accuracy"}

\* day1/01-tf2-test-setup.ipynb
CellsSetup ==
    << ImportCell(17, 46),
       GpuCell(56, 71),
       Cell(87, 93, <<Stmt("input", "inputs", "", {"tf"}, {"inputs"})>>),
       Cell(103, 110, <<Stmt("layers", "outputs", "inputs", {"tf", "inputs"}, {"outputs"})>>),
       Cell(120, 126, <<Stmt("build", "model", "outputs", {"tf", "inputs", "outputs"}, {"model"})>>),
       Cell(136, 142, <<Stmt("summary", "model", "", {"model"}, {})>>),
       Cell(152, 158, <<Stmt("plot_model", "model", "", {"tf", "model"}, {})>>),
       Cell(168, 176, <<Stmt("compile", "model", "", {"model"}, {})>>),
       Cell(186, 195, <<Stmt("random_data", "train", "", {"tf"}, {"data"}),
                        FitStmt("model", "", "", 5, "")>>),
       Cell(205, 216, <<Stmt("random_data", "test", "", {"tf"}, {"data"}),
                        Stmt("evaluate", "model", "loss", {"model", "data"}, {"loss"})>>) >>

\* day1/02-tf2-mnist-mlp.ipynb
CellsMLP ==
    << ImportCell(15, 41),
       GpuCell(51, 66),
       MnistCell(90, 118),
       Cell(130, 144, <<Stmt("show_samples", "", "", {"tf", "data"}, {})>>),
       ModelCell(168, 189),
       CellT(203, 211, {}, <<Stmt("plot_model", "model", "", {"tf", "model"}, {})>>),
       Cell(229, 241, <<AssignStmt("epochs", 10),
                        FitStmt("model", "history", "epochs", 0, "")>>),
       Cell(254, 268, <<PlotStmt("history", LossAcc)>>),
       EvalCell(280, 288, "model", "scores"),
       PredictCell(305, 313),
       FailuresCell(323, 329),
       Cell(339, 352, <<Stmt("confusion", "", "", {"predictions", "data"}, {})>>),
       Cell(374, 385, <<Stmt("input", "ex1_inputs", "", {"tf"}, {"ex1_inputs"}),
                        Stmt("layers", "x", "ex1_inputs", {"tf", "ex1_inputs"}, {}),
                        Stmt("placeholder", "ex1_outputs", "", {}, {"ex1_outputs"})>>),
       Cell(396, 402, <<Stmt("load_magic", "", "", {}, {})>>),
       GuardCell(405, 418),
       Cell(421, 432, <<AssignStmt("ex1_epochs", 10),
                        FitStmt("ex1_model", "ex1_history", "epochs", 0, "")>>),
       Cell(442, 456, <<PlotStmt("history", LossAcc)>>),
       EvalCell(459, 466, "ex1_model", "ex1_scores"),
       EmptyCell(484, 488) >>

\* day1/03-tf2-mnist-cnn.ipynb
CellsCNN ==
    << ImportCell(17, 48),
       MnistCell(51, 79),
       Cell(89, 107, <<Stmt("reshape", "", "", {"data"}, {"data", "input_shape"})>>),
       [ModelCell(125, 154) EXCEPT !.stmts[1].reads = {"tf", "input_shape"}],
       Cell(157, 168, <<Stmt("plot_model", "model", "", {"tf", "model"}, {})>>),
       Cell(182, 201, <<AssignStmt("epochs", 5),
                        FitStmt("model", "history", "epochs", 0, "")>>),
       Cell(204, 223, <<PlotStmt("history", LossAcc)>>),
       EvalCell(237, 250, "model", "scores"),
       PredictCell(267, 281),
       FailuresCell(291, 302),
       Cell(328, 343, <<Stmt("input", "ex1_inputs", "", {"tf", "input_shape"}, {"ex1_inputs"}),
                        Stmt("placeholder", "ex1_outputs", "", {}, {"ex1_outputs"})>>),
       Cell(353, 359, <<Stmt("load_magic", "", "", {}, {})>>),
       GuardCell(362, 380),
       Cell(383, 402, <<AssignStmt("epochs", 5),
                        FitStmt("ex1_model", "ex1_history", "epochs", 0, "")>>),
       Cell(412, 431, <<PlotStmt("ex1_history", LossAcc)>>),
       EvalCell(434, 446, "ex1_model", "ex1_scores"),
       Cell(464, 480, <<Stmt("clone", "ex2_model", "ex1_model", {"tf", "ex1_model"}, {"ex2_model"}),
                        Stmt("compile", "ex2_model", "", {"ex2_model"}, {}),
                        FitStmt("ex2_model", "ex2_history", "", 5, "")>>),
       EvalCell(483, 490, "ex2_model", "ex2_scores") >>

\* day1/04-tf2-imdb-rnn.ipynb
CellsIMDB ==
    << ImportCell(15, 38),
       Cell(56, 69, <<AssignStmt("nb_words", nb_words),
                      Stmt("load", "imdb", "", {"tf", "nb_words"}, {"data"})>>),
       Cell(79, 92, <<AssignStmt("maxlen", maxlen),
                      Stmt("pad", "", "", {"tf", "data", "maxlen"}, {"data"})>>),
       Cell(102, 108, <<Stmt("print", "", "", {"data"}, {})>>),
       Cell(118, 127, <<Stmt("word_index", "", "", {"tf"}, {"word_index"}),
                        Stmt("decode", "", "", {"word_index", "data"}, {})>>),
       [ModelCell(143, 170) EXCEPT !.stmts[2].reads = {"tf", "inputs", "nb_words"}],
       Cell(173, 179, <<Stmt("plot_model", "model", "", {"tf", "model"}, {})>>),
       Cell(193, 205, <<AssignStmt("epochs", 5),
                        AssignStmt("validation_split", 20),
                        FitStmt("model", "history", "epochs", 0, "validation_split")>>),
       Cell(215, 233, <<PlotStmt("history", LossAccVal)>>),
       EvalCell(245, 252, "model", "scores"),
       Cell(262, 284, <<Stmt("encode_review", "myreview", "",
                             {"tf", "maxlen", "word_index", "nb_words"}, {"myreview"}),
                        Stmt("predict", "model", "p", {"model", "myreview"}, {"p"})>>),
       Cell(303, 313, <<Stmt("input", "ex1_inputs", "", {"tf"}, {"ex1_inputs"}),
                        Stmt("placeholder", "ex1_outputs", "", {}, {"ex1_outputs"})>>),
       Cell(323, 329, <<Stmt("load_magic", "", "", {}, {})>>),
       GuardCell(332, 346),
       Cell(349, 361, <<AssignStmt("ex1_epochs", 5),
                        AssignStmt("ex1_validation_split", 20),
                        FitStmt("ex1_model", "ex1_history", "ex1_epochs", 0,
                                "ex1_validation_split")>>),
       Cell(371, 389, <<PlotStmt("ex1_history", LossAccVal)>>),
       EvalCell(392, 399, "ex1_model", "ex1_scores"),
       EmptyCell(439, 443) >>

\* the optional MNIST-RNN notebook
CellsRNN ==
    << ImportCell(17, 43),
       [MnistCell(53, 77) EXCEPT !.stmts[1].writes = {"data", "img_rows"}],
       [ModelCell(101, 127) EXCEPT !.stmts[1].reads = {"tf", "img_rows"}],
       Cell(130, 136, <<Stmt("plot_model", "model", "", {"tf", "model"}, {})>>),
       Cell(150, 164, <<AssignStmt("epochs", 3),
                        FitStmt("model", "history", "epochs", 0, "")>>),
       Cell(167, 179, <<PlotStmt("history", LossAcc)>>),
       EvalCell(193, 201, "model", "scores"),
       PredictCell(218, 228),
       FailuresCell(238, 244),
       EmptyCell(255, 259) >>

Notebooks == {"setup", "mlp", "cnn", "imdb", "rnn"}
ExerciseNotebooks == {"mlp", "cnn", "imdb"}

Cells(n) ==
    CASE n = "setup" -> CellsSetup
      [] n = "mlp"   -> CellsMLP
      [] n = "cnn"   -> CellsCNN
      [] n = "imdb"  -> CellsIMDB
      [] n = "rnn"   -> CellsRNN
      [] OTHER       -> <<>>

-----------------------------------------------------------------------------
(* The kernel: the namespace and the objects the cells create *)

ModelVars == {"model", "ex1_model", "ex2_model"}
HistVars  == {"history", "ex1_history", "ex2_history"}
IntVars   == {"epochs", "ex1_epochs", "validation_split", "ex1_validation_split",
              "nb_words", "maxlen"}

NoModel   == [built |-> FALSE, compiled |-> FALSE, trained |-> 0]
NoHistory == [epoch |-> 0, series |-> {}]

\* a fresh kernel: nothing is defined
Kernel0 ==
    [defined     |-> {},
     ex1_outputs |-> "",
     ints        |-> [v \in IntVars |-> 0],
     models      |-> [m \in ModelVars |-> NoModel],
     hists       |-> [h \in HistVars |-> NoHistory],
     data        |-> {},
     evaluated   |-> {}]

NoErr == [type |-> "", msg |-> ""]

\* the series a fit records: the compiled loss and metric, and their val_
\* counterparts when validation data is given
HistoryKeys(validation) ==
    IF validation THEN {"loss", "accuracy", "val_loss", "val_accuracy"}
    ELSE {"loss", "accuracy"}

\* the History object of a fit of n epochs: epoch = [0..n-1] and one value
\* per epoch in each series (series: <<key, number of values>>)
History(n, validation) ==
    [epoch |-> n, series |-> {<<key, n>> : key \in HistoryKeys(validation)}]

SeriesKeys(h) == {p[1] : p \in h.series}

\* the epochs and validation_split arguments of a fit statement
FitEpochs(k, s) == IF s.ev = "" THEN s.n ELSE k.ints[s.ev]

FitValidationOff(k, s) == FALSE

FitValidation(k, s) == s.vv # "" /\ k.ints[s.vv] > 0

TrainedFromScratch(old, e) == e

\* fit trains the model object it is called on for e more epochs: the
\* weights are those the model already has
Trained(old, e) == old + e

\* what the Task 1 placeholder cell leaves in ex1_outputs
PlaceholderValue == IF learner = "written" THEN "tensor" ELSE "None"

GuardRaisesNever(k) == FALSE

\* assert ex1_outputs is not None, "You need to write the missing model definition"
GuardRaises(k) == k.ex1_outputs = "None"

\* statements that call into the framework or the file system and may fail there
MayFailOutside ==
    {"import", "load", "pad", "build", "clone", "plot_model", "fit", "evaluate",
     "predict", "load_magic", "show_failures", "word_index"}

\* the error statement s raises in kernel k ("" in type: none); ext: the
\* framework or the environment fails in it
Raises(k, s, ext) ==
    IF ~(s.reads \subseteq k.defined) THEN [type |-> "NameError", msg |-> ""]
    ELSE IF s.op = "assert_version" /\ VersionAssert(tfVersion) # ""
        THEN [type |-> VersionAssert(tfVersion), msg |-> ""]
    ELSE IF s.op = "guard" /\ GuardRaises(k)
        THEN [type |-> "AssertionError", msg |-> GuardMsg]
    ELSE IF s.op = "build" /\ s.y = "ex1_outputs" /\ k.ex1_outputs = "None"
        THEN [type |-> "ValueError", msg |-> ""]
    ELSE IF s.op \in {"fit", "evaluate"} /\ ~k.models[s.x].compiled
        THEN [type |-> "RuntimeError", msg |-> ""]
    ELSE IF s.op = "plot" /\ ~(s.keys \subseteq SeriesKeys(k.hists[s.y]))
        THEN [type |-> "KeyError", msg |-> ""]
    ELSE IF ext /\ s.op \in MayFailOutside
        THEN [type |-> "Exception", msg |-> ""]
    ELSE NoErr

\* the kernel after statement s completes
Effect(k, s) ==
    LET d == [k EXCEPT !.defined = @ \cup s.writes]
    IN  CASE s.op = "placeholder" -> [d EXCEPT !.ex1_outputs = PlaceholderValue]
          [] s.op = "assign" -> [d EXCEPT !.ints[s.x] = s.n]
          [] s.op = "load" -> [d EXCEPT !.data = {"loaded"}]
          [] s.op = "random_data" -> [d EXCEPT !.data = @ \cup {"loaded", "onehot"}]
          [] s.op \in {"normalize", "onehot", "reshape", "pad"} ->
                [d EXCEPT !.data = @ \cup {s.op}]
          [] s.op \in {"build", "clone"} ->
                [d EXCEPT !.models[s.x] = [built |-> TRUE, compiled |-> FALSE, trained |-> 0]]
          [] s.op = "compile" -> [d EXCEPT !.models[s.x].compiled = TRUE]
          [] s.op = "fit" ->
                LET e == FitEpochs(k, s)
                    t == [d EXCEPT !.models[s.x].trained = Trained(@, e)]
                IN  IF s.y = "" THEN t
                    ELSE [t EXCEPT !.hists[s.y] = History(e, FitValidation(k, s))]
          [] s.op = "evaluate" -> [d EXCEPT !.evaluated = @ \cup {s.x}]
          [] OTHER -> d

\* the statements of a cell from the i-th on, in kernel k; f: the index of the
\* statement in which the framework fails (0: none). The cell stops at the
\* first statement that raises; what the earlier ones did stays.
RECURSIVE RunStmts(_, _, _, _, _)
RunStmts(k, stmts, i, f, done) ==
    IF i > Len(stmts) THEN [k |-> k, err |-> NoErr, done |-> done]
    ELSE LET e == Raises(k, stmts[i], i = f)
         IN  IF e.type # "" THEN [k |-> k, err |-> e, done |-> done]
             ELSE RunStmts(Effect(k, stmts[i]), stmts, i + 1, f,
                           Append(done, stmts[i]))

\* one execution of code cell c
ExecCell(k, c, f) == RunStmts(k, c.stmts, 1, f, <<>>)

\* where the framework may fail in cell c
FailPoints(c) ==
    {0} \cup {i \in 1..Len(c.stmts) : c.stmts[i].op \in MayFailOutside}

StopOnErrorNever(c) == FALSE

\* an error in a cell stops the cells queued after it, unless the cell is
\* tagged raises-exception
StopOnError(c) == "raises-exception" \notin c.tags

-----------------------------------------------------------------------------
(* Idle values of the parts a specification does not run *)

NbIdle ==
    /\ nb = "none" /\ tfVersion = V_2_6_0 /\ learner = "blank"
    /\ kernel = Kernel0 /\ pc = 0 /\ status = "none"
    /\ ran = <<>> /\ out = <<>>
    /\ err = [cell |-> 0, type |-> "", msg |-> ""]
    /\ last = [cell |-> 0, ok |-> TRUE]

JobIdle ==
    /\ script = "none" /\ ip = 0 /\ shStatus = 0 /\ submitEnv = {} /\ shEnv = {}
    /\ cmdlog = <<>> /\ py = <<>> /\ jobState = "none" /\ jobExit = 0

PadIdle == review = <<>> /\ padded = <<>>

EncIdle == text = <<>> /\ myreview = <<>> /\ wi = 0 /\ encState = "none"

SumIdle ==
    /\ arch = [inShape |-> <<>>, flatten |-> FALSE, hidden |-> <<>>]
    /\ xshape = <<>> /\ summary = <<>> /\ bstate = "none"

CatIdle == ytrain = {} /\ ytest = {} /\ rstate = "none" /\ rerr = ""

AuxIdle == SumIdle /\ CatIdle

-----------------------------------------------------------------------------
(* Run all cells in order *)

InitRunAll ==
    /\ nb \in Notebooks
    /\ tfVersion \in TFVersions
    /\ learner \in {"blank", "written"}
    /\ kernel = Kernel0
    /\ pc = 1
    /\ status = "running"
    /\ ran = <<>>
    /\ out = <<>>
    /\ err = [cell |-> 0, type |-> "", msg |-> ""]
    /\ last = [cell |-> 0, ok |-> TRUE]
    /\ JobIdle /\ PadIdle /\ EncIdle /\ AuxIdle

\* the completed statements of cell i, as the run's output records them
Outputs(i, done) ==
    [j \in 1..Len(done) |-> [cell |-> i, op |-> done[j].op, x |-> done[j].x, y |-> done[j].y]]

\* the next queued cell runs; when it raises, the cells after it are dropped
RunNext ==
    /\ status = "running"
    /\ \E f \in FailPoints(Cells(nb)[pc]) :
        LET c == Cells(nb)[pc]
            r == ExecCell(kernel, c, f)
            raised == r.err.type # ""
            halt == raised /\ StopOnError(c)
        IN  /\ kernel' = r.k
            /\ ran' = Append(ran, pc)
            /\ out' = out \o Outputs(pc, r.done)
            /\ last' = [cell |-> pc, ok |-> ~raised]
            /\ err' = IF halt THEN [cell |-> pc, type |-> r.err.type, msg |-> r.err.msg]
                      ELSE err
            /\ status' = IF halt THEN "halted"
                         ELSE IF pc = Len(Cells(nb)) THEN "done"
                         ELSE "running"
            /\ pc' = IF halt THEN pc ELSE pc + 1
    /\ UNCHANGED <<nb, tfVersion, learner, jobVars, padVars, encVars, auxVars>>

SpecRunAll == InitRunAll /\ [][RunNext]_vars

-----------------------------------------------------------------------------
(* An interactive session on the MNIST-MLP notebook: the learner runs the  *)
(* cells one at a time, in any order, any number of times                  *)

InitInteractive ==
    /\ nb = "mlp"
    /\ tfVersion \in {V_1_15_0, V_2_6_0}
    /\ learner \in {"blank", "written"}
    /\ kernel = Kernel0
    /\ pc = 0
    /\ status = "interactive"
    /\ ran = <<>>
    /\ out = <<>>
    /\ err = [cell |-> 0, type |-> "", msg |-> ""]
    /\ last = [cell |-> 0, ok |-> TRUE]
    /\ JobIdle /\ PadIdle /\ EncIdle /\ AuxIdle

\* the learner runs code cell i
RunCell(i) ==
    /\ status = "interactive"
    /\ LET r == ExecCell(kernel, Cells(nb)[i], 0)
       IN  /\ \A m \in ModelVars : r.k.models[m].trained <= MaxTrained
           /\ kernel' = r.k
           /\ last' = [cell |-> i, ok |-> r.err.type = ""]
    /\ UNCHANGED <<nb, tfVersion, learner, pc, status, ran, out, err,
                   jobVars, padVars, encVars, auxVars>>

NextInteractive == \E i \in 1..Len(Cells(nb)) : RunCell(i)

SpecInteractive == InitInteractive /\ [][NextInteractive]_vars

-----------------------------------------------------------------------------
(* Where things are in a notebook *)

\* the cell that holds statement op on name x
CellOf(n, op, x) ==
    CHOOSE i \in 1..Len(Cells(n)) :
        \E j \in 1..Len(Cells(n)[i].stmts) :
            Cells(n)[i].stmts[j].op = op /\ Cells(n)[i].stmts[j].x = x

GuardIdx(n) == CellOf(n, "guard", "")
FitIdx(n)   == CellOf(n, "fit", "model")
InitIdx(n)  == CellOf(n, "build", "model")

\* the release numbers of a tf.__version__: major, minor, patch
Release(v) == <<v[1].n, v[3].n, v[5].n>>

\* release r is below 2.0.0
Below200(v) ==
    LET r == Release(v)
    IN  \/ r[1] < 2
        \/ r[1] = 2 /\ r[2] < 0
        \/ r[1] = 2 /\ r[2] = 0 /\ r[3] < 0

-----------------------------------------------------------------------------
(* C1: in the exercise notebooks ex1_model is built, compiled, trained or  *)
(* evaluated only when ex1_outputs is not None; with the placeholder left  *)
(* as None a run in order ends in the guard cell, with the message "You    *)
(* need to write the missing model definition", and runs no cell after it. *)
C1_GuardedTask1 ==
    nb \in ExerciseNotebooks =>
        /\ ( \/ kernel.models["ex1_model"] # NoModel
             \/ "ex1_model" \in kernel.evaluated
             \/ \E i \in 1..Len(out) :
                    out[i].x = "ex1_model"
                    /\ out[i].op \in {"build", "compile", "fit", "evaluate"} )
           => kernel.ex1_outputs = "tensor"
        /\ learner = "blank" =>
            /\ \A i \in 1..Len(ran) : ran[i] <= GuardIdx(nb)
            /\ last.cell = GuardIdx(nb) =>
                /\ status = "halted"
                /\ err = [cell |-> GuardIdx(nb), type |-> "AssertionError",
                          msg |-> GuardMsg]

\* the guard cell has stopped a run of a notebook whose placeholder is None
C1_Witness ==
    /\ nb \in ExerciseNotebooks /\ learner = "blank"
    /\ status = "halted" /\ err.cell = GuardIdx(nb) /\ err.msg = GuardMsg
    /\ kernel.ex1_outputs = "None"

(* C2: a run of all cells executes them top to bottom, each at most once;  *)
(* a cell that raises halts the run at that cell: every cell before it has *)
(* run, none after it runs, and nothing is run again.                      *)
C2_RunAllHalts ==
    nb \in Notebooks =>
        /\ ran = [i \in 1..Len(ran) |-> i]
        /\ Len(ran) <= Len(Cells(nb))
        /\ ~last.ok => status = "halted"
        /\ status = "halted" =>
            ~last.ok /\ err.type # "" /\ err.cell = Len(ran) /\ pc = err.cell
        /\ status = "running" => pc = Len(ran) + 1
        /\ status = "done" => Len(ran) = Len(Cells(nb))

\* a run halted in a cell in the middle of the notebook
C2_Witness ==
    /\ nb \in Notebooks /\ status = "halted"
    /\ err.cell > 1 /\ err.cell < Len(Cells(nb))
    /\ Len(ran) = err.cell

(* C3: the first code cell of every notebook asserts the TensorFlow        *)
(* version; with a release below 2.0.0 installed, a run in order loads no  *)
(* dataset and constructs, compiles, fits and evaluates no model.          *)
C3_VersionGate ==
    /\ \A n \in Notebooks :
          \E j \in 1..Len(Cells(n)[1].stmts) :
              Cells(n)[1].stmts[j].op = "assert_version"
    /\ (nb \in Notebooks /\ Below200(tfVersion)) =>
          /\ kernel.data = {}
          /\ \A m \in ModelVars : kernel.models[m] = NoModel
          /\ kernel.evaluated = {}
          /\ \A i \in 1..Len(out) :
                out[i].op \notin {"load", "random_data", "build", "clone",
                                  "compile", "fit", "evaluate"}
          /\ \A i \in 1..Len(ran) : ran[i] = 1

\* the version assertion has stopped a run under TensorFlow 1
C3_Witness ==
    /\ nb \in Notebooks /\ Below200(tfVersion)
    /\ status = "halted" /\ err.cell = 1 /\ err.type = "AssertionError"

(* C4: in the MNIST-MLP notebook each successful run of the training cell  *)
(* trains the same model for epochs more epochs, on top of what it had; a  *)
(* successful run of the model-initialization cell leaves an untrained     *)
(* model; no other cell, and no failed run, changes the model's training.  *)
C4_ContinuesTraining ==
    [][ nb = "mlp" =>
          LET t  == kernel.models["model"].trained
              t2 == kernel'.models["model"].trained
          IN  /\ (last'.cell = FitIdx(nb) /\ last'.ok) =>
                    t2 = t + kernel'.ints["epochs"] /\ kernel'.ints["epochs"] > 0
              /\ (last'.cell = InitIdx(nb) /\ last'.ok) => t2 = 0
              /\ (last'.cell \notin {FitIdx(nb), InitIdx(nb)} \/ ~last'.ok) => t2 = t
      ]_vars

\* the training cell has run twice on the same model: 2 x epochs epochs
C4_Witness ==
    /\ nb = "mlp" /\ status = "interactive"
    /\ last = [cell |-> FitIdx(nb), ok |-> TRUE]
    /\ kernel.models["model"].trained = 2 * kernel.ints["epochs"]

(* C10: in the IMDB notebook both fits use validation_split = 0.2, so the  *)
(* history of each holds the four series loss, accuracy, val_loss and      *)
(* val_accuracy, each with one value per requested epoch, as many as       *)
(* history.epoch; no plot cell reads a series that is missing.             *)
C10_ImdbHistory ==
    nb = "imdb" =>
        /\ \A p \in {<<"history", "epochs", "validation_split">>,
                     <<"ex1_history", "ex1_epochs", "ex1_validation_split">>} :
              p[1] \in kernel.defined =>
                  LET h == kernel.hists[p[1]]
                  IN  /\ kernel.ints[p[3]] = 20
                      /\ kernel.ints[p[2]] > 0
                      /\ h.epoch = kernel.ints[p[2]]
                      /\ SeriesKeys(h) = LossAccVal
                      /\ \A q \in h.series : q[2] = h.epoch
        /\ err.type # "KeyError"

\* a complete run of the IMDB notebook: both fits done, both plots drawn
C10_Witness ==
    /\ nb = "imdb" /\ status = "done"
    /\ {"history", "ex1_history"} \subseteq kernel.defined
    /\ \E i \in 1..Len(out) : out[i].op = "plot" /\ out[i].y = "ex1_history"

-----------------------------------------------------------------------------
(* The order of the steps of a notebook run *)

\* position in the run's output of the first statement op (0: none yet)
FirstOp(op) ==
    LET S == {i \in 1..Len(out) : out[i].op = op}
    IN  IF S = {} THEN 0 ELSE CHOOSE i \in S : \A j \in S : i <= j

\* the steps of q have all happened, first occurrences in the order of q
InOrder(q) ==
    \A i \in 1..Len(q) :
        /\ FirstOp(q[i]) > 0
        /\ i > 1 => FirstOp(q[i - 1]) < FirstOp(q[i])

\* so far, no step of q has happened without the one before it in q
Precedes(q) ==
    \A i \in 2..Len(q) :
        FirstOp(q[i]) > 0 =>
            FirstOp(q[i - 1]) > 0 /\ FirstOp(q[i - 1]) < FirstOp(q[i])

\* the notebooks that train on MNIST images
MnistNotebooks == {"mlp", "cnn", "rnn"}

\* C12 as stated: every notebook, run in order, performs the steps import,
\* load a built-in dataset, define a model, compile, fit, evaluate and then
\* plot, each present and in this order
C12_StepsAsStated ==
    status = "done" =>
        InOrder(<<"import", "load", "build", "compile", "fit", "evaluate", "plot">>)

\* C12: every notebook, run in order, imports the framework, defines a model,
\* compiles, fits and evaluates it, in this order; the notebooks other than
\* test-setup load a built-in dataset before they define the model and plot
\* the training history after the fit and before the evaluation; test-setup
\* loads no dataset (it draws random data between compile and fit) and plots
\* nothing
C12_StepsInOrder ==
    /\ nb \in Notebooks =>
          /\ Precedes(<<"import", "build", "compile", "fit", "evaluate">>)
          /\ status = "done" =>
                InOrder(<<"import", "build", "compile", "fit", "evaluate">>)
    /\ nb \in Notebooks \ {"setup"} =>
          /\ Precedes(<<"import", "load", "build", "compile", "fit", "plot", "evaluate">>)
          /\ status = "done" =>
                InOrder(<<"import", "load", "build", "compile", "fit", "plot", "evaluate">>)
    /\ nb = "setup" =>
          /\ FirstOp("load") = 0 /\ FirstOp("plot") = 0
          /\ Precedes(<<"compile", "random_data", "fit">>)
          /\ status = "done" => FirstOp("random_data") > 0

\* a complete run of the MNIST-CNN notebook: its plot precedes its evaluation
C12_Witness ==
    /\ nb = "cnn" /\ status = "done"
    /\ FirstOp("plot") > 0 /\ FirstOp("plot") < FirstOp("evaluate")

\* C13 as stated: in each notebook the main example loads the dataset,
\* normalizes, one-hot-encodes, builds, compiles, fits, evaluates, plots and
\* inspects misclassifications, in this order; evaluation comes before the
\* plot and every notebook has the normalization and one-hot steps
C13_UnitAsStated ==
    status = "done" =>
        InOrder(<<"load", "normalize", "onehot", "build", "compile", "fit",
                  "evaluate", "plot", "show_failures">>)

\* C13: in the MNIST notebooks the main example loads the dataset, normalizes
\* the pixel values, one-hot-encodes the labels, builds the layer graph,
\* compiles, fits, plots the training curves, evaluates on the test set and
\* then inspects the misclassifications, in this order: the plot comes before
\* the evaluation.  The IMDB notebook pads its reviews instead of normalizing
\* and one-hot-encoding, the test-setup notebook never normalizes, and
\* neither inspects misclassifications
C13_UnitInOrder ==
    /\ nb \in MnistNotebooks =>
          /\ Precedes(<<"load", "normalize", "onehot", "build", "compile", "fit",
                        "plot", "evaluate", "show_failures">>)
          /\ status = "done" =>
                InOrder(<<"load", "normalize", "onehot", "build", "compile", "fit",
                          "plot", "evaluate", "show_failures">>)
    /\ nb = "imdb" =>
          /\ FirstOp("normalize") = 0 /\ FirstOp("onehot") = 0
          /\ FirstOp("show_failures") = 0
          /\ Precedes(<<"load", "pad", "build", "compile", "fit", "plot", "evaluate">>)
          /\ status = "done" =>
                InOrder(<<"load", "pad", "build", "compile", "fit", "plot", "evaluate">>)
    /\ nb = "setup" =>
          FirstOp("normalize") = 0 /\ FirstOp("show_failures") = 0

\* a complete run of the MNIST-RNN notebook, misclassifications shown
C13_Witness ==
    /\ nb = "rnn" /\ status = "done"
    /\ FirstOp("normalize") > 0 /\ FirstOp("onehot") > FirstOp("normalize")
    /\ FirstOp("show_failures") > FirstOp("evaluate")

\* the Task 1 training cell of an exercise notebook
Ex1FitIdx(n) ==
    CHOOSE i \in 1..Len(Cells(n)) :
        \E j \in 1..Len(Cells(n)[i].stmts) :
            Cells(n)[i].stmts[j].op = "fit" /\ Cells(n)[i].stmts[j].y = "ex1_history"

\* C16: in each exercise notebook the plot cell that follows the Task 1
\* training cell plots the series of ex1_history (the Task 1 run), not those
\* of the main example's history
C16_PlotsTask1History ==
    nb \in ExerciseNotebooks =>
        \A i \in 1..Len(out) :
            (out[i].op = "plot" /\ out[i].cell = Ex1FitIdx(nb) + 1) =>
                out[i].y = "ex1_history"

-----------------------------------------------------------------------------
(* The batch scripts *)

\* a command of a script: its kind, its argument, whether srun starts it,
\* and its line in the file
Cmd(kind, arg, line) == [kind |-> kind, arg |-> arg, srun |-> FALSE, line |-> line]
Srun(kind, arg, line) == [kind |-> kind, arg |-> arg, srun |-> TRUE, line |-> line]

RunHvdExportLate ==
    [ntasks |-> 2,
     cmds |-> << Cmd("module_load", "tensorflow", 12),
                 Cmd("module_list", "", 13),
                 Cmd("set", "-xv", 19),
                 Srun("python", "python3", 20),
                 Cmd("export", "DATADIR", 15),
                 Cmd("export", "KERAS_HOME", 16),
                 Cmd("export", "TRANSFORMERS_CACHE", 17) >>]

\* slurm/run-hvd.sh
RunHvd ==
    [ntasks |-> 2,
     cmds |-> << Cmd("module_load", "tensorflow", 12),
                 Cmd("module_list", "", 13),
                 Cmd("export", "DATADIR", 15),
                 Cmd("export", "KERAS_HOME", 16),
                 Cmd("export", "TRANSFORMERS_CACHE", 17),
                 Cmd("set", "-xv", 19),
                 Srun("python", "python3", 20) >>]

RunLscratchTarLast ==
    [ntasks |-> 1,
     cmds |-> << Cmd("module_load", "tensorflow/2.6", 11),
                 Cmd("module_list", "", 12),
                 Cmd("export", "DATADIR", 14),
                 Cmd("export", "KERAS_HOME", 15),
                 Cmd("export", "TRANSFORMERS_CACHE", 16),
                 Cmd("set", "-xv", 18),
                 Cmd("python", "python3", 22),
                 Cmd("tar", "dogs-vs-cats.tar", 20) >>]

\* slurm/run-lscratch.sh
RunLscratch ==
    [ntasks |-> 1,
     cmds |-> << Cmd("module_load", "tensorflow/2.6", 11),
                 Cmd("module_list", "", 12),
                 Cmd("export", "DATADIR", 14),
                 Cmd("export", "KERAS_HOME", 15),
                 Cmd("export", "TRANSFORMERS_CACHE", 16),
                 Cmd("set", "-xv", 18),
                 Cmd("tar", "dogs-vs-cats.tar", 20),
                 Cmd("python", "python3", 22) >>]

\* day2/run-lscratch.sh
RunLscratchDay2 ==
    [ntasks |-> 1,
     cmds |-> << Cmd("module_load", "tensorflow", 11),
                 Cmd("module_list", "", 12),
                 Cmd("export", "DATADIR", 14),
                 Cmd("export", "KERAS_HOME", 15),
                 Cmd("export", "TRANSFORMERS_CACHE", 16),
                 Cmd("set", "-xv", 18),
                 Cmd("tar", "dogs-vs-cats.tar", 20),
                 Cmd("python", "python3", 22) >>]

\* the script at the end of unnamed/part_000
RunPart000 ==
    [ntasks |-> 2,
     cmds |-> << Cmd("module_load", "tensorflow/2.0.0-hvd", 290),
                 Cmd("module_list", "", 291),
                 Cmd("export", "DATADIR", 293),
                 Cmd("set", "-xv", 295),
                 Srun("python", "python3.7", 296) >>]

\* unnamed/part_001
RunPart001 ==
    [ntasks |-> 1,
     cmds |-> << Cmd("module_load", "tensorflow", 10),
                 Cmd("module_list", "", 11),
                 Cmd("export", "DATADIR", 13),
                 Cmd("export", "KERAS_HOME", 14),
                 Cmd("export", "TRANSFORMERS_CACHE", 15),
                 Cmd("set", "-xv", 17),
                 Cmd("python", "python3", 18) >>]

\* unnamed/part_002
RunPart002 ==
    [ntasks |-> 1,
     cmds |-> << Cmd("module_load", "tensorflow/2.0.0", 4),
                 Cmd("module_list", "", 5),
                 Cmd("set", "-xv", 7),
                 Srun("python", "python3.7", 8) >>]

\* unnamed/part_003
RunPart003 ==
    [ntasks |-> 1,
     cmds |-> << Cmd("module_load", "tensorflow", 11),
                 Cmd("module_list", "", 12),
                 Cmd("export", "DATADIR", 14),
                 Cmd("export", "KERAS_HOME", 15),
                 Cmd("export", "TRANSFORMERS_CACHE", 16),
                 Cmd("set", "-xv", 18),
                 Cmd("python", "python3", 19) >>]

Scripts ==
    {"slurm/run-hvd.sh", "slurm/run-lscratch.sh", "day2/run-lscratch.sh",
     "unnamed/part_000", "unnamed/part_001", "unnamed/part_002", "unnamed/part_003"}

ScriptOf(name) ==
    CASE name = "slurm/run-hvd.sh"      -> RunHvd
      [] name = "slurm/run-lscratch.sh" -> RunLscratch
      [] name = "day2/run-lscratch.sh"  -> RunLscratchDay2
      [] name = "unnamed/part_000"      -> RunPart000
      [] name = "unnamed/part_001"      -> RunPart001
      [] name = "unnamed/part_002"      -> RunPart002
      [] name = "unnamed/part_003"      -> RunPart003

\* the resources a script asks for in its #SBATCH lines
Header(account, reservation, gpus, nvme, cpus, nodes) ==
    [partition |-> "gpu", time |-> "1:00:00", mem |-> "64G",
     account |-> account, reservation |-> reservation,
     gpus |-> gpus, nvme |-> nvme, cpus |-> cpus, nodes |-> nodes]

SbatchTestPartition(name) ==
    [Header("project_2004846", "dlintro", 1, 0, 10, 1)
     EXCEPT !.partition = IF name = "unnamed/part_002" THEN "gputest" ELSE "gpu"]

\* the #SBATCH lines of each script ("": no reservation; nodes 0: no --nodes)
Sbatch(name) ==
    CASE name = "slurm/run-hvd.sh"      -> Header("project_2004846", "dlintro", 2, 0, 10, 1)
      [] name = "slurm/run-lscratch.sh" -> Header("project_2005006", "dlintro", 1, 100, 10, 1)
      [] name = "day2/run-lscratch.sh"  -> Header("project_2005299", "dlintro", 1, 100, 10, 1)
      [] name = "unnamed/part_000"      -> Header("project_2002238", "dlintro", 2, 0, 20, 1)
      [] name = "unnamed/part_001"      -> Header("project_2005299", "", 1, 0, 10, 1)
      [] name = "unnamed/part_002"      -> Header("project_2001756", "", 1, 0, 10, 0)
      [] name = "unnamed/part_003"      -> Header("project_2004846", "dlintro", 1, 0, 10, 1)

\* the variables the scripts export
EnvNames == {"DATADIR", "KERAS_HOME", "TRANSFORMERS_CACHE"}

Statuses == 0..MaxStatus

RECURSIVE MaxOf(_)
MaxOf(q) ==
    IF Len(q) = 1 THEN q[1]
    ELSE LET m == MaxOf(Tail(q)) IN IF q[1] > m THEN q[1] ELSE m

\* what the launch line returns when no interpreter could be started: bash's
\* "command not found", or srun's report of the failed exec
NotStarted(c) == IF c.srun THEN 2 ELSE 127

\* the interpreter processes a launch line starts: one, or one per task
\* under srun
Tasks(sc, c) == IF c.srun THEN sc.ntasks ELSE 1

NextIpRetry(i, st) == IF st = 0 THEN i + 1 ELSE i

\* bash without errexit: the next line runs whatever the status of this one
NextIp(i, st) == i + 1

Current == ScriptOf(script).cmds[ip]

InitJob ==
    /\ script \in Scripts
    /\ ip = 1
    /\ shStatus = 0
    /\ submitEnv \in SUBSET EnvNames
    /\ shEnv = submitEnv
    /\ cmdlog = <<>>
    /\ py = <<>>
    /\ jobState = "running"
    /\ jobExit = 0
    /\ NbIdle /\ PadIdle /\ EncIdle /\ AuxIdle

Running == jobState = "running" /\ ip <= Len(ScriptOf(script).cmds)

\* one command has returned st
Step(st) ==
    /\ shStatus' = st
    /\ cmdlog' = Append(cmdlog, [idx |-> ip, status |-> st])
    /\ ip' = NextIp(ip, st)
    /\ UNCHANGED <<script, submitEnv, jobState, jobExit, nbVars, padVars, encVars, auxVars>>

\* module load, module list, tar: an outside command, with any status
ExternalCmd ==
    /\ Running
    /\ Current.kind \in {"module_load", "module_list", "tar"}
    /\ \E st \in Statuses : Step(st)
    /\ UNCHANGED <<shEnv, py>>

\* export NAME=value
ExportCmd ==
    /\ Running
    /\ Current.kind = "export"
    /\ shEnv' = shEnv \cup {Current.arg}
    /\ Step(0)
    /\ UNCHANGED py

\* set -xv
SetCmd ==
    /\ Running
    /\ Current.kind = "set"
    /\ Step(0)
    /\ UNCHANGED <<shEnv, py>>

\* python3 $* or srun python3 $*: the interpreter processes get the shell's
\* exported environment; the line returns the status of the process, under
\* srun the highest status of its tasks
PythonCmd ==
    /\ Running
    /\ Current.kind = "python"
    /\ \/ /\ py' = Append(py, [env |-> shEnv, started |-> FALSE, procs |-> <<>>])
          /\ Step(NotStarted(Current))
       \/ \E procs \in [1..Tasks(ScriptOf(script), Current) -> Statuses] :
            /\ py' = Append(py, [env |-> shEnv, started |-> TRUE, procs |-> procs])
            /\ Step(MaxOf(procs))
    /\ UNCHANGED shEnv

\* end of file: the script exits with the status of its last command
ExitJob ==
    /\ jobState = "running"
    /\ ip > Len(ScriptOf(script).cmds)
    /\ jobState' = "exited"
    /\ jobExit' = shStatus
    /\ UNCHANGED <<script, ip, shStatus, submitEnv, shEnv, cmdlog, py,
                   nbVars, padVars, encVars, auxVars>>

NextJob == ExternalCmd \/ ExportCmd \/ SetCmd \/ PythonCmd \/ ExitJob

SpecJob == InitJob /\ [][NextJob]_vars

\* the index of the launch line of a script
PythonIdx(sc) == CHOOSE i \in 1..Len(sc.cmds) : sc.cmds[i].kind = "python"

\* the names a script exports
Exports(sc) == {sc.cmds[i].arg : i \in {j \in 1..Len(sc.cmds) : sc.cmds[j].kind = "export"}}

(* C5: the exit status of a job script is the exit status of the Python    *)
(* interpreter it started (under srun: the highest of its tasks), whatever *)
(* module load, module list and tar returned.                              *)
C5_ExitIsInterpreters ==
    (jobState = "exited" /\ py # <<>> /\ py[Len(py)].started) =>
        /\ jobExit = MaxOf(py[Len(py)].procs)
        /\ \E i \in 1..Len(py[Len(py)].procs) : jobExit = py[Len(py)].procs[i]

\* module load failed, the interpreter then returned 0, and so did the job
C5_Witness ==
    /\ jobState = "exited" /\ py # <<>> /\ py[1].started
    /\ cmdlog[1].status # 0
    /\ jobExit = 0

(* C6 as stated: every batch script launches the interpreter with DATADIR, *)
(* KERAS_HOME and TRANSFORMERS_CACHE in its environment.                   *)
C6_AllScriptsExportAll ==
    \A i \in 1..Len(py) : EnvNames \subseteq py[i].env

\* the scripts that export the three variables
FullExportScripts ==
    {"slurm/run-hvd.sh", "slurm/run-lscratch.sh", "day2/run-lscratch.sh",
     "unnamed/part_001", "unnamed/part_003"}

(* C6 amended: the scripts other than the two older ones export DATADIR,   *)
(* KERAS_HOME and TRANSFORMERS_CACHE before the interpreter starts, so its *)
(* environment holds them whatever the job inherited; the script of        *)
(* unnamed/part_000 exports only DATADIR and unnamed/part_002 nothing, and *)
(* in every script each export precedes the launch.                        *)
C6_NewerScriptsExportAll ==
    /\ \A n \in FullExportScripts : Exports(ScriptOf(n)) = EnvNames
    /\ Exports(ScriptOf("unnamed/part_000")) = {"DATADIR"}
    /\ Exports(ScriptOf("unnamed/part_002")) = {}
    /\ script \in Scripts =>
        \A i \in 1..Len(py) :
            /\ py[i].env = submitEnv \cup Exports(ScriptOf(script))
            /\ script \in FullExportScripts => EnvNames \subseteq py[i].env

\* a newer script started the interpreter with the three variables though
\* the job inherited none of them
C6_Witness ==
    /\ script \in FullExportScripts /\ submitEnv = {}
    /\ py # <<>> /\ py[1].started /\ EnvNames \subseteq py[1].env

(* C7: a batch script is a straight line: its commands run once each, in   *)
(* file order, whether or not an earlier one failed, and the launch line   *)
(* runs exactly once per job, also when the interpreter fails.             *)
C7_StraightLine ==
    script \in Scripts =>
        /\ \A i \in 1..Len(cmdlog) : cmdlog[i].idx = i
        /\ Len(cmdlog) <= Len(ScriptOf(script).cmds)
        /\ Len(py) <= 1
        /\ jobState = "running" => ip = Len(cmdlog) + 1
        /\ jobState = "exited" =>
            /\ Len(cmdlog) = Len(ScriptOf(script).cmds)
            /\ Len(py) = 1

\* a job in which module load failed and the interpreter failed: every
\* command ran, the launch line once
C7_Witness ==
    /\ script \in Scripts /\ jobState = "exited"
    /\ cmdlog[1].status # 0
    /\ cmdlog[PythonIdx(ScriptOf(script))].status # 0
    /\ Len(py) = 1

\* the first command of kind k in script sc
CmdOf(sc, k) == sc.cmds[CHOOSE i \in 1..Len(sc.cmds) : sc.cmds[i].kind = k]

\* what every script would share if the scripts differed only in account,
\* reservation, GPU count and scratch handling
SameInAll(name) ==
    [partition |-> Sbatch(name).partition,
     time      |-> Sbatch(name).time,
     mem       |-> Sbatch(name).mem,
     cpus      |-> Sbatch(name).cpus,
     module    |-> CmdOf(ScriptOf(name), "module_load").arg,
     launch    |-> <<CmdOf(ScriptOf(name), "python").srun,
                     CmdOf(ScriptOf(name), "python").arg>>]

\* the commands of a script without its exports and its unpacking of data
RECURSIVE Skeleton(_)
Skeleton(cmds) ==
    IF cmds = <<>> THEN <<>>
    ELSE IF Head(cmds).kind \in {"export", "tar"} THEN Skeleton(Tail(cmds))
    ELSE <<Head(cmds).kind>> \o Skeleton(Tail(cmds))

\* C14 as stated: any two batch scripts differ only in account, reservation,
\* GPU count and scratch handling; partition, wall-clock limit, memory, CPU
\* count per task, loaded module and launch command are the same in all
C14_OneTemplateAsStated ==
    script \in Scripts =>
        \A s \in Scripts : SameInAll(s) = SameInAll(script)

\* C14: any two batch scripts ask for the same partition, wall-clock limit
\* and memory and run the same skeleton (module load, module list, set -xv,
\* one interpreter launch, with exports and data unpacking in between); next
\* to account, reservation, GPU count and scratch handling they differ in
\* the CPU count per task (20 in the script of part_000, 10 elsewhere), in
\* the loaded module and in the launch command
C14_TemplateVariants ==
    script \in Scripts =>
        \A s \in Scripts :
            /\ Sbatch(s).partition = Sbatch(script).partition
            /\ Sbatch(s).time = Sbatch(script).time
            /\ Sbatch(s).mem = Sbatch(script).mem
            /\ Skeleton(ScriptOf(s).cmds) = Skeleton(ScriptOf(script).cmds)
            /\ Skeleton(ScriptOf(s).cmds) = <<"module_load", "module_list", "set", "python">>
            /\ Sbatch(s).cpus = (IF s = "unnamed/part_000" THEN 20 ELSE 10)
            /\ SameInAll(s).module \in {"tensorflow", "tensorflow/2.6",
                                        "tensorflow/2.0.0", "tensorflow/2.0.0-hvd"}
            /\ SameInAll(s).launch \in {<<FALSE, "python3">>, <<TRUE, "python3">>,
                                        <<TRUE, "python3.7">>}
            /\ SameInAll("unnamed/part_000") # SameInAll("unnamed/part_001")

\* the job of the script of part_000 has run: 20 CPUs per task, the
\* tensorflow/2.0.0-hvd module and srun python3.7
C14_Witness ==
    /\ script = "unnamed/part_000" /\ jobState = "exited"
    /\ Sbatch(script).cpus = 20
    /\ \E i \in 1..Len(cmdlog) :
          ScriptOf(script).cmds[cmdlog[i].idx].arg = "tensorflow/2.0.0-hvd"

-----------------------------------------------------------------------------
(* The padding cell of the IMDB notebook *)

\* reviews as imdb.load_data gives them: the start marker 1, then word
\* indices; n words, either all different or all out of vocabulary
WordsReview(n) == [i \in 1..n |-> IF i = 1 THEN 1 ELSE i + 2]
OovReview(n)   == [i \in 1..n |-> IF i = 1 THEN 1 ELSE 2]
Reviews == {WordsReview(n) : n \in 0..(maxlen + MaxOver)}
               \cup {OovReview(n) : n \in 0..(maxlen + MaxOver)}

Fill(n, value) == [i \in 1..n |-> value]

\* keras pad_sequences on one sequence: cut to ml elements (truncating "pre":
\* the last ml, "post": the first ml), then fill to ml with value (padding
\* "pre": in front, "post": behind)
PadSequence(q, ml, padding, truncating, value) ==
    LET trunc == IF Len(q) <= ml THEN q
                 ELSE IF truncating = "pre" THEN SubSeq(q, Len(q) - ml + 1, Len(q))
                 ELSE SubSeq(q, 1, ml)
        fill  == Fill(ml - Len(trunc), value)
    IN  IF padding = "post" THEN trunc \o fill ELSE fill \o trunc

\* sequence.pad_sequences(x, maxlen=maxlen): padding, truncating and value
\* are left at their defaults
PadDefault(q) == PadSequence(q, maxlen, "pre", "pre", 0)

InitPad ==
    /\ review \in Reviews
    /\ padded = <<>>
    /\ NbIdle /\ JobIdle /\ EncIdle /\ AuxIdle

\* the padding cell runs
PadCell ==
    /\ padded = <<>>
    /\ padded' = PadDefault(review)
    /\ UNCHANGED <<review, nbVars, jobVars, encVars, auxVars>>

SpecPad == InitPad /\ [][PadCell]_vars

(* C8: after the padding cell a review has length maxlen: a longer review  *)
(* is cut to its first maxlen words, a shorter one keeps its words in      *)
(* order and is filled with zeros at the end.                              *)
C8_FirstWordsZerosAtEnd ==
    padded # <<>> =>
        /\ Len(padded) = maxlen
        /\ Len(review) > maxlen => padded = SubSeq(review, 1, maxlen)
        /\ Len(review) <= maxlen =>
              /\ \A i \in 1..Len(review) : padded[i] = review[i]
              /\ \A i \in (Len(review) + 1)..maxlen : padded[i] = 0

-----------------------------------------------------------------------------
(* The hand-encoded review of the IMDB notebook *)

\* imdb.get_word_index(): words to their frequency ranks, which start at 1;
\* a few entries of it, around the bounds the code tests
Vocab == {"the", "and", "rank9996", "rank9997", "rank88584"}
word_index(w) ==
    CASE w = "the"       -> 1
      [] w = "and"       -> 2
      [] w = "rank9996"  -> 9996
      [] w = "rank9997"  -> 9997
      [] w = "rank88584" -> 88584

\* the words a text may hold: those, and one that is in no index
Words == Vocab \cup {"notaword"}

\* myreviewtext.split(): short texts of any words, and texts that fill the row
Texts == UNION {[1..n -> Words] : n \in 0..MaxWords}
            \cup {[i \in 1..n |-> "the"] : n \in {maxlen - 1, maxlen}}

EncodeNoOffset(w) ==
    IF w \in Vocab /\ word_index(w) + 3 < nb_words THEN word_index(w) ELSE 2

\* the value stored for word w
Encode(w) ==
    IF w \in Vocab /\ word_index(w) + 3 < nb_words THEN word_index(w) + 3 ELSE 2

InitEnc ==
    /\ text \in Texts
    /\ myreview = <<>>
    /\ wi = 0
    /\ encState = "init"
    /\ NbIdle /\ JobIdle /\ PadIdle /\ AuxIdle

\* myreview = np.zeros((1,maxlen), dtype=int); myreview[0, 0] = 1
EncInit ==
    /\ encState = "init"
    /\ myreview' = [Fill(maxlen, 0) EXCEPT ![1] = 1]
    /\ encState' = "loop"
    /\ UNCHANGED <<text, wi, nbVars, jobVars, padVars, auxVars>>

\* one iteration of the loop: word i = wi goes to myreview[0, i+1]
EncWord ==
    /\ encState = "loop"
    /\ wi < Len(text)
    /\ IF wi + 2 > maxlen
       THEN encState' = "IndexError" /\ UNCHANGED <<myreview, wi>>
       ELSE /\ myreview' = [myreview EXCEPT ![wi + 2] = Encode(text[wi + 1])]
            /\ wi' = wi + 1
            /\ UNCHANGED encState
    /\ UNCHANGED <<text, nbVars, jobVars, padVars, auxVars>>

\* the loop is over
EncDone ==
    /\ encState = "loop"
    /\ wi = Len(text)
    /\ encState' = "done"
    /\ UNCHANGED <<text, myreview, wi, nbVars, jobVars, padVars, auxVars>>

NextEnc == EncInit \/ EncWord \/ EncDone

SpecEnc == InitEnc /\ [][NextEnc]_vars

(* C9: in the hand-encoded review position 0 holds the start marker 1; a   *)
(* word w of word_index with word_index[w]+3 < nb_words is stored as       *)
(* word_index[w]+3, which is at least 3; any other word is stored as 2;    *)
(* the positions not written hold 0; 0, 1 and 2 stand for no word.         *)
C9_TokenConvention ==
    encState \in {"loop", "done", "IndexError"} =>
        /\ Len(myreview) = maxlen
        /\ myreview[1] = 1
        /\ \A i \in 1..wi :
              LET w == text[i]
              IN  IF w \in Vocab /\ word_index(w) + 3 < nb_words
                  THEN myreview[i + 1] = word_index(w) + 3 /\ myreview[i + 1] >= 3
                  ELSE myreview[i + 1] = 2
        /\ \A j \in (wi + 2)..maxlen : myreview[j] = 0
        /\ \A j \in 1..maxlen :
              myreview[j] \in {0, 1, 2} =>
                  \/ j = 1
                  \/ j > wi + 1
                  \/ ~(text[j - 1] \in Vocab /\ word_index(text[j - 1]) + 3 < nb_words)
        /\ encState = "done" => wi = Len(text)

\* a finished encoding of a text with a frequent word, a word beyond
\* nb_words and a word that is in no index
C9_Witness ==
    /\ encState = "done"
    /\ \E i, j, k \in 1..Len(text) :
          /\ text[i] = "the" /\ myreview[i + 1] = 4
          /\ text[j] = "rank9997" /\ myreview[j + 1] = 2
          /\ text[k] = "notaword" /\ myreview[k + 1] = 2
    /\ myreview[Len(text) + 2] = 0

-----------------------------------------------------------------------------
(* The parameter count of a model built with the functional API:           *)
(* keras.Input, layers.Flatten, layers.Dense ..., keras.Model, summary()   *)

\* bound: the number of hidden Dense layers of a model
MaxHidden == 2

\* units of the last layer, softmax over the ten classes
OutputUnits == 10

\* units of the hidden Dense layers the notebooks use
HiddenUnits == {20, 64}

\* Input(shape=(28, 28)) of the MLP notebook, Input(shape=(100,)) of test-setup
InputShapes == {<<28, 28>>, <<100>>}

HiddenSeqs == UNION {[1..n -> HiddenUnits] : n \in 0..MaxHidden}

Archs == [inShape : InputShapes, flatten : BOOLEAN, hidden : HiddenSeqs]

\* the model of the MNIST-MLP notebook's initialization cell
MlpArch == [inShape |-> <<28, 28>>, flatten |-> TRUE, hidden |-> <<20>>]

\* number of elements of a tensor of shape sh
RECURSIVE Prod(_)
Prod(sh) == IF sh = <<>> THEN 1 ELSE Head(sh) * Prod(Tail(sh))

DenseParamsNoBias(d, u) == d * u

\* Dense(units=u) on an input whose last axis has size d: a d x u kernel and a
\* bias of u values
DenseParams(d, u) == d * u + u

\* model.count_params(): the sum over the layers
RECURSIVE CountParams(_)
CountParams(rows) ==
    IF rows = <<>> THEN 0 ELSE Head(rows).params + CountParams(Tail(rows))

\* the Dense layers called so far
DenseRows == {i \in 1..Len(summary) : summary[i].layer = "Dense"}

InitSummary ==
    /\ arch \in Archs
    /\ xshape = <<>> /\ summary = <<>> /\ bstate = "start"
    /\ CatIdle
    /\ NbIdle /\ JobIdle /\ PadIdle /\ EncIdle

\* inputs = keras.Input(shape=...)
KerasInput ==
    /\ bstate = "start"
    /\ xshape' = arch.inShape
    /\ summary' = <<[layer |-> "InputLayer", params |-> 0]>>
    /\ bstate' = "input"
    /\ UNCHANGED <<arch, catVars, nbVars, jobVars, padVars, encVars>>

\* x = layers.Flatten()(inputs)
Flatten ==
    /\ bstate = "input" /\ arch.flatten
    /\ xshape' = <<Prod(xshape)>>
    /\ summary' = Append(summary, [layer |-> "Flatten", params |-> 0])
    /\ bstate' = "layers"
    /\ UNCHANGED <<arch, catVars, nbVars, jobVars, padVars, encVars>>

\* x = layers.Dense(units=...)(x), the last one being
\* outputs = layers.Dense(units=10, activation='softmax')(x)
Dense ==
    /\ bstate = "layers" \/ (bstate = "input" /\ ~arch.flatten)
    /\ Cardinality(DenseRows) <= Len(arch.hidden)
    /\ LET k == Cardinality(DenseRows)
           u == IF k < Len(arch.hidden) THEN arch.hidden[k + 1] ELSE OutputUnits
           d == xshape[Len(xshape)]
       IN  /\ xshape' = [xshape EXCEPT ![Len(xshape)] = u]
           /\ summary' = Append(summary, [layer |-> "Dense", params |-> DenseParams(d, u)])
    /\ bstate' = "layers"
    /\ UNCHANGED <<arch, catVars, nbVars, jobVars, padVars, encVars>>

\* model = keras.Model(inputs=inputs, outputs=outputs)
KerasModel ==
    /\ bstate = "layers"
    /\ Cardinality(DenseRows) = Len(arch.hidden) + 1
    /\ bstate' = "built"
    /\ UNCHANGED <<arch, xshape, summary, catVars, nbVars, jobVars, padVars, encVars>>

NextSummary == KerasInput \/ Flatten \/ Dense \/ KerasModel

SpecSummary == InitSummary /\ [][NextSummary]_vars

\* C11: the model of the MNIST-MLP notebook (28x28 input flattened to 784,
\* Dense of 20 units, Dense of 10 units, each with a bias) has 15,910
\* parameters in total, and its first Dense layer has 785 x 20 = 15,700
C11_MlpParams ==
    (bstate = "built" /\ arch = MlpArch) =>
        /\ CountParams(summary) = 15910
        /\ summary[3].layer = "Dense"
        /\ summary[3].params = 785 * 20
        /\ summary[3].params = 15700
        /\ xshape = <<OutputUnits>>

\* the MLP notebook's model is built: 784 values enter the first Dense layer
C11_Witness ==
    /\ bstate = "built" /\ arch = MlpArch
    /\ Len(summary) = 4
    /\ summary[2].layer = "Flatten"

-----------------------------------------------------------------------------
(* The random data of the test-setup notebook:                             *)
(*   Y_train = to_categorical(np.random.randint(10, size=128)), model.fit  *)
(*   Y_test  = to_categorical(np.random.randint(10, size=64)), evaluate    *)

\* bound: the number of distinct values in a draw that is not the full range
MaxDistinct == 2

\* np.random.randint(10, ...): values 0..9
RandHigh == 10

\* the values a draw of labels holds: a few of 0..9, or all of them
LabelDraws ==
    {S \in SUBSET (0..(RandHigh - 1)) : S # {} /\ Cardinality(S) <= MaxDistinct}
        \cup {0..(RandHigh - 1)}

\* to_categorical(y) without num_classes: one column per class up to the
\* largest label in y
ToCategorical(y) == (CHOOSE m \in y : \A l \in y : l <= m) + 1

\* categorical_crossentropy on a model whose output has OutputUnits values
ShapeError(cols) == IF cols = OutputUnits THEN "" ELSE "ValueError"

InitRandom ==
    /\ ytrain = {} /\ ytest = {} /\ rstate = "start" /\ rerr = ""
    /\ SumIdle
    /\ NbIdle /\ JobIdle /\ PadIdle /\ EncIdle

\* the cell with model.fit(X_train, Y_train, ...)
FitRandom ==
    /\ rstate = "start"
    /\ \E y \in LabelDraws :
        /\ ytrain' = y
        /\ rerr' = ShapeError(ToCategorical(y))
        /\ rstate' = IF ShapeError(ToCategorical(y)) = "" THEN "fitted" ELSE "error"
    /\ UNCHANGED <<ytest, sumVars, nbVars, jobVars, padVars, encVars>>

\* the cell with model.evaluate(X_test, Y_test, ...)
EvaluateRandom ==
    /\ rstate = "fitted"
    /\ \E y \in LabelDraws :
        /\ ytest' = y
        /\ rerr' = ShapeError(ToCategorical(y))
        /\ rstate' = IF ShapeError(ToCategorical(y)) = "" THEN "evaluated" ELSE "error"
    /\ UNCHANGED <<ytrain, sumVars, nbVars, jobVars, padVars, encVars>>

NextRandom == FitRandom \/ EvaluateRandom

SpecRandom == InitRandom /\ [][NextRandom]_vars

\* C15: whatever labels are drawn, Y_train and Y_test have exactly 10
\* columns, as many as the output layer has units, so that neither fit nor
\* evaluate fails on the shape of the labels
C15_TenColumns ==
    /\ ytrain # {} => ToCategorical(ytrain) = OutputUnits
    /\ ytest # {} => ToCategorical(ytest) = OutputUnits
    /\ rerr = ""

=============================================================================
